---- MODULE Spec2Model ----
\* Model of the InfraMon metrics collection loop (MetricsCollector) with the
\* sample store it writes through StatsService / DockerService.
EXTENDS Integers, Sequences, FiniteSets, TLC

\* ---------------------------------------------------------------- bounds
MaxTicks == 2
\* largest cumulative CPU counter value drawn for a snapshot
MaxCounter == 3
\* largest online_cpus drawn for a snapshot
MaxCpus == 2
\* largest memory usage / limit drawn for a snapshot (besides 500 / 1000)
MaxMem == 9
\* sample timestamps (seconds) a history query is run over
SampleTimes == {0, 60, 1800, 3600, 3660}
\* most raw samples in one aggregated history
MaxAggRows == 3
\* largest small bucket value drawn for a trend (besides values around 5 %)
MaxTrendVal == 8
\* container samples in the top-consumers window
MaxTopRows == 3
\* collector inserts while prunes run
MaxInserts == 1
\* start() calls on the collector
MaxStarts == 3

\* ---------------------------------------------------------------- constants
\* MetricsCollector.interval (seconds slept between ticks)
Interval == 60
\* psutil.cpu_percent(interval=1) blocks one second before utcnow() is read
HostCpuInterval == 1

\* runtime containers that may be running; "C" has no row in the containers table
Containers == {"A", "B", "C"}
Registered == {"A", "B"}
HostEntity == "host"

\* outcomes of collect_and_store_system_stats
HostOutcomes == {"ok", "fail_sample", "fail_refresh"}
\* outcomes of DockerService.list_all_containers(all_containers=False)
ListOutcomes == {"ok", "unavailable", "connect_err"}
\* outcomes of collect_and_store_container_stats(container_id)
ContOutcomes(c) ==
    IF c \in Registered
    THEN {"ok", "stats_err", "connect_err", "db_err", "refresh_err"}
    ELSE {"unregistered", "stats_err", "connect_err", "db_err"}
\* variant: a container that is not found raises instead of returning an error result
ContainerOutcomeEffect_NotFoundRaises(r) ==
    CASE r = "ok" -> "stored"
      [] r = "unregistered" -> "skipped"
      [] r \in {"stats_err", "connect_err", "db_err"} -> "raised"
      [] r = "refresh_err" -> "stored_raised"

\* what collect_and_store_container_stats does with each outcome: commit the row
\* and return it, return None, raise before the row, or raise after its commit
ContainerOutcomeEffect(r) ==
    CASE r = "ok" -> "stored"
      [] r \in {"stats_err", "unregistered"} -> "skipped"
      [] r \in {"connect_err", "db_err"} -> "raised"
      [] r = "refresh_err" -> "stored_raised"

\* outcomes of the final session.commit()
CommitOutcomes == {"ok", "fail"}

\* ordered listings the runtime can return: sequences of distinct containers
RECURSIVE SeqsOf(_)
SeqsOf(S) ==
    IF S = {} THEN {<<>>}
    ELSE {<<>>} \cup UNION { { <<c>> \o s : s \in SeqsOf(S \ {c}) } : c \in S }
Listings == SeqsOf(Containers)

Range(s) == { s[i] : i \in 1..Len(s) }

Row(e, t, ts) == [e |-> e, t |-> t, ts |-> ts]

VARIABLES
    phase,          \* lifespan position: "init", "serving", "stopping", "stopped"
    running,        \* MetricsCollector._running
    task,           \* MetricsCollector._task: "none", "alive", "done"
    cancelReq,      \* task.cancel() has been requested
    lpc,            \* position of _collection_loop
    tick,           \* number of ticks begun
    now,            \* datetime.utcnow() clock, seconds
    listed,         \* containers returned by list_all_containers in this tick
    idx,            \* index of the next container in the for loop
    store,          \* committed rows of system_stats and container_stats
    staged,         \* rows added to the session but not yet committed
    hostRes,        \* outcome of this tick's host sample
    listRes,        \* outcome of this tick's enumeration
    contRes,        \* outcome of this tick's per-container samples
    aborted,        \* this tick's body raised into the except clause
    collecting,     \* ticks begun and not finished
    enumSinceSleep, \* enumeration attempts since the last inter-tick sleep
    cancelPc,       \* loop position at which cancellation was delivered
    fin,            \* input of the pure computation under check
    fout,           \* <<result>> once it ran, <<>> before
    dbrows,         \* committed rows of the database, seen by prune_old_stats
    db0,            \* the rows committed before any prune ran
    writer,         \* connection holding the SQLite write lock (0: none)
    ppc,            \* position of each prune_old_stats call
    pcount,         \* counts each prune call reads (system / container)
    premoved,       \* rows each prune call's DELETE statements removed
    pdel,           \* rows deleted in each prune call's open transaction
    inserted,       \* collector inserts during the prunes
    cpending,       \* collector row inserted (flushed) but not yet committed
    mrun,           \* _running of the collector under arbitrary start/stop calls
    mtask,          \* task slot held in _task (0: None)
    tst,            \* state of each created loop task
    tpos,           \* await the loop task is at: "tick" (session open) or "sleep"
    tcan,           \* task.cancel() was called on the task
    spc,            \* position of each stop() call
    sawait,         \* task slot each stop() call awaits
    nstarts         \* start() calls made

cvars == <<phase, running, task, cancelReq, lpc, tick, now, listed, idx, store,
          staged, hostRes, listRes, contRes, aborted, collecting,
          enumSinceSleep, cancelPc>>

fvars == <<fin, fout>>

pvars == <<dbrows, db0, writer, ppc, pcount, premoved, pdel, inserted, cpending>>

mvars == <<mrun, mtask, tst, tpos, tcan, spc, sawait, nstarts>>

vars == <<cvars, fvars, pvars, mvars>>

NoContRes == [c \in Containers |-> "none"]

\* slots for the loop tasks start() creates
TaskSlots == 1..MaxStarts

\* concurrent stop() calls
StopCallers == {1, 2}

\* the collector before any start() / stop() call
McIdle ==
    /\ mrun = FALSE
    /\ mtask = 0
    /\ tst = [t \in TaskSlots |-> "none"]
    /\ tpos = [t \in TaskSlots |-> "tick"]
    /\ tcan = [t \in TaskSlots |-> FALSE]
    /\ spc = [c \in StopCallers |-> "idle"]
    /\ sawait = [c \in StopCallers |-> 0]
    /\ nstarts = 0

\* prune_old_stats calls that may run at once (one request each)
PruneProcs == {1, 2}

NoCounts == [system |-> 0, container |-> 0]

\* no prune running, empty tables
DbIdle ==
    /\ dbrows = {}
    /\ db0 = {}
    /\ writer = 0
    /\ ppc = [p \in PruneProcs |-> "idle"]
    /\ pcount = [p \in PruneProcs |-> NoCounts]
    /\ premoved = [p \in PruneProcs |-> NoCounts]
    /\ pdel = [p \in PruneProcs |-> {}]
    /\ inserted = 0
    /\ cpending = {}

CollectorInit ==
    /\ phase = "init"
    /\ running = FALSE
    /\ task = "none"
    /\ cancelReq = FALSE
    /\ lpc = "none"
    /\ tick = 0
    /\ now = 0
    /\ listed = <<>>
    /\ idx = 1
    /\ store = {}
    /\ staged = {}
    /\ hostRes = "none"
    /\ listRes = "none"
    /\ contRes = NoContRes
    /\ aborted = FALSE
    /\ collecting = 0
    /\ enumSinceSleep = 0
    /\ cancelPc = "none"

Init == CollectorInit /\ DbIdle /\ McIdle /\ fin = <<>> /\ fout = <<>>

\* lifespan: await metrics_collector.start()
Start ==
    /\ phase = "init"
    /\ phase' = "serving"
    /\ IF running
       THEN UNCHANGED <<running, task, lpc>>
       ELSE /\ running' = TRUE
            /\ task' = "alive"
            /\ lpc' = "check"
    /\ UNCHANGED <<cancelReq, tick, now, listed, idx, store, staged, hostRes,
                   listRes, contRes, aborted, collecting, enumSinceSleep, cancelPc>>

\* variant: the except clause re-raises, ending the loop
Abort_Reraise ==
    /\ lpc' = "done"
    /\ staged' = {}
    /\ aborted' = TRUE
    /\ collecting' = collecting - 1


\* the except clause of _collection_loop: the session closes, rolling back
\* whatever is still staged, and the loop goes on to the sleep
Abort ==
    /\ lpc' = "sleep"
    /\ staged' = {}
    /\ aborted' = TRUE
    /\ collecting' = collecting - 1

\* variant: a timer starts the next tick without waiting for the current one
Check_Timer ==
    /\ task = "alive" /\ ~cancelReq
    /\ lpc \in {"check", "list", "cont", "commit"}
    /\ running
    /\ tick < MaxTicks
    /\ tick' = tick + 1
    /\ lpc' = "host"
    /\ collecting' = collecting + 1
    /\ hostRes' = "none" /\ listRes' = "none" /\ contRes' = NoContRes
    /\ aborted' = FALSE
    /\ listed' = <<>> /\ idx' = 1
    /\ UNCHANGED <<task, phase, running, cancelReq, now, store, staged,
                   enumSinceSleep, cancelPc>>

\* variant: the tick enumerates containers before sampling the host
Check_ContainersFirst ==
    /\ task = "alive" /\ ~cancelReq
    /\ lpc = "check"
    /\ running
    /\ tick < MaxTicks
    /\ tick' = tick + 1
    /\ lpc' = "list"
    /\ collecting' = collecting + 1
    /\ hostRes' = "none" /\ listRes' = "none" /\ contRes' = NoContRes
    /\ aborted' = FALSE
    /\ listed' = <<>> /\ idx' = 1
    /\ UNCHANGED <<task, phase, running, cancelReq, now, store, staged,
                   enumSinceSleep, cancelPc>>


\* while self._running: (and the start of the async with block)
Check ==
    /\ task = "alive" /\ ~cancelReq
    /\ lpc = "check"
    /\ IF running
       THEN /\ tick < MaxTicks
            /\ tick' = tick + 1
            /\ lpc' = "host"
            /\ collecting' = collecting + 1
            /\ hostRes' = "none" /\ listRes' = "none" /\ contRes' = NoContRes
            /\ aborted' = FALSE
            /\ listed' = <<>> /\ idx' = 1
            /\ UNCHANGED task
       ELSE /\ lpc' = "done"
            /\ task' = "done"
            /\ UNCHANGED <<tick, collecting, hostRes, listRes, contRes, aborted,
                           listed, idx>>
    /\ UNCHANGED <<phase, running, cancelReq, now, store, staged, enumSinceSleep,
                   cancelPc>>

\* variant: the host row is only staged, left for the final session.commit()
CollectAndStoreSystemStats_Staged ==
    /\ task = "alive" /\ ~cancelReq
    /\ lpc = "host"
    /\ now' = now + HostCpuInterval
    /\ \E r \in HostOutcomes :
         /\ hostRes' = r
         /\ CASE r = "ok" ->
                   /\ staged' = staged \cup {Row(HostEntity, tick, now + HostCpuInterval)}
                   /\ lpc' = "list"
                   /\ UNCHANGED <<store, aborted, collecting>>
              [] r \in {"fail_sample", "fail_refresh"} ->
                   /\ Abort
                   /\ UNCHANGED store
    /\ UNCHANGED <<phase, running, task, cancelReq, tick, listed, idx, listRes,
                   contRes, enumSinceSleep, cancelPc>>


\* await stats_service.collect_and_store_system_stats()
\* utcnow() is read after cpu_percent(interval=1); the row is added and committed
\* on its own; a refresh failure raises after the commit
CollectAndStoreSystemStats ==
    /\ task = "alive" /\ ~cancelReq
    /\ lpc = "host"
    /\ now' = now + HostCpuInterval
    /\ \E r \in HostOutcomes :
         /\ hostRes' = r
         /\ CASE r = "ok" ->
                   /\ store' = store \cup staged \cup {Row(HostEntity, tick, now + HostCpuInterval)}
                   /\ staged' = {}
                   /\ lpc' = "list"
                   /\ UNCHANGED <<aborted, collecting>>
              [] r = "fail_sample" ->
                   /\ Abort
                   /\ UNCHANGED store
              [] r = "fail_refresh" ->
                   /\ store' = store \cup staged \cup {Row(HostEntity, tick, now + HostCpuInterval)}
                   /\ Abort
    /\ UNCHANGED <<phase, running, task, cancelReq, tick, listed, idx, listRes,
                   contRes, enumSinceSleep, cancelPc>>

\* variant: a failed listing is retried at once within the tick
ListAllContainers_Retry ==
    /\ task = "alive" /\ ~cancelReq
    /\ lpc = "list"
    /\ enumSinceSleep' = enumSinceSleep + 1
    /\ \E r \in ListOutcomes :
         /\ listRes' = r
         /\ CASE r = "ok" ->
                   \E s \in Listings :
                      /\ listed' = s
                      /\ idx' = 1
                      /\ lpc' = IF s = <<>> THEN "commit" ELSE "cont"
                      /\ UNCHANGED <<staged, aborted, collecting>>
              [] r \in {"unavailable", "connect_err"} ->
                   /\ lpc' = "list"
                   /\ UNCHANGED <<listed, idx, staged, aborted, collecting>>
    /\ UNCHANGED <<phase, running, task, cancelReq, tick, now, store, hostRes,
                   contRes, cancelPc>>


\* containers = await docker_service.list_all_containers(all_containers=False)
\* "unavailable": the containers.list call fails inside _safe_docker_call -> [];
\* "connect_err": the client property raises before _safe_docker_call is entered
ListAllContainers ==
    /\ task = "alive" /\ ~cancelReq
    /\ lpc = "list"
    /\ enumSinceSleep' = enumSinceSleep + 1
    /\ \E r \in ListOutcomes :
         /\ listRes' = r
         /\ CASE r = "ok" ->
                   \E s \in Listings :
                      /\ listed' = s
                      /\ idx' = 1
                      /\ lpc' = IF s = <<>> THEN "commit" ELSE "cont"
                      /\ UNCHANGED <<staged, aborted, collecting>>
              [] r = "unavailable" ->
                   /\ listed' = <<>>
                   /\ idx' = 1
                   /\ lpc' = "commit"
                   /\ UNCHANGED <<staged, aborted, collecting>>
              [] r = "connect_err" ->
                   /\ Abort
                   /\ UNCHANGED <<listed, idx>>
    /\ UNCHANGED <<phase, running, task, cancelReq, tick, now, store, hostRes,
                   contRes, cancelPc>>

\* variant: the timestamp default is evaluated once, at import (time 0)
CollectAndStoreContainerStats_ImportTs ==
    /\ task = "alive" /\ ~cancelReq
    /\ lpc = "cont"
    /\ idx <= Len(listed)
    /\ LET c == listed[idx]
           nextPc == IF idx = Len(listed) THEN "commit" ELSE "cont"
       IN \E r \in ContOutcomes(c) :
            /\ contRes' = [contRes EXCEPT ![c] = r]
            /\ CASE ContainerOutcomeEffect(r) = "stored" ->
                      /\ store' = store \cup staged \cup {Row(c, tick, 0)}
                      /\ staged' = {}
                      /\ idx' = idx + 1
                      /\ lpc' = nextPc
                      /\ UNCHANGED <<aborted, collecting>>
                 [] ContainerOutcomeEffect(r) = "skipped" ->
                      /\ idx' = idx + 1
                      /\ lpc' = nextPc
                      /\ UNCHANGED <<store, staged, aborted, collecting>>
                 [] ContainerOutcomeEffect(r) = "raised" ->
                      /\ Abort
                      /\ UNCHANGED <<store, idx>>
                 [] ContainerOutcomeEffect(r) = "stored_raised" ->
                      /\ store' = store \cup staged \cup {Row(c, tick, 0)}
                      /\ Abort
                      /\ UNCHANGED idx
    /\ UNCHANGED <<phase, running, task, cancelReq, tick, now, listed, hostRes,
                   listRes, enumSinceSleep, cancelPc>>


\* one iteration of: for container in containers:
\*     await stats_service.collect_and_store_container_stats(container_id)
\* "stats_err": get_container_stats_formatted returns {"error": ...} -> None;
\* "unregistered": no containers row -> None;
\* "connect_err": the new DockerService's client property raises;
\* "db_err": the select or the commit raises; "refresh_err": raises after commit.
\* ContainerStats.timestamp is default=datetime.utcnow, read at insert.
CollectAndStoreContainerStats ==
    /\ task = "alive" /\ ~cancelReq
    /\ lpc = "cont"
    /\ idx <= Len(listed)
    /\ LET c == listed[idx]
           nextPc == IF idx = Len(listed) THEN "commit" ELSE "cont"
       IN \E r \in ContOutcomes(c) :
            /\ contRes' = [contRes EXCEPT ![c] = r]
            /\ CASE ContainerOutcomeEffect(r) = "stored" ->
                      /\ store' = store \cup staged \cup {Row(c, tick, now)}
                      /\ staged' = {}
                      /\ idx' = idx + 1
                      /\ lpc' = nextPc
                      /\ UNCHANGED <<aborted, collecting>>
                 [] ContainerOutcomeEffect(r) = "skipped" ->
                      /\ idx' = idx + 1
                      /\ lpc' = nextPc
                      /\ UNCHANGED <<store, staged, aborted, collecting>>
                 [] ContainerOutcomeEffect(r) = "raised" ->
                      /\ Abort
                      /\ UNCHANGED <<store, idx>>
                 [] ContainerOutcomeEffect(r) = "stored_raised" ->
                      /\ store' = store \cup staged \cup {Row(c, tick, now)}
                      /\ Abort
                      /\ UNCHANGED idx
    /\ UNCHANGED <<phase, running, task, cancelReq, tick, now, listed, hostRes,
                   listRes, enumSinceSleep, cancelPc>>

\* await session.commit(), then the async with block closes the session
SessionCommit ==
    /\ task = "alive" /\ ~cancelReq
    /\ lpc = "commit"
    /\ \E r \in CommitOutcomes :
         IF r = "ok"
         THEN /\ store' = store \cup staged
              /\ staged' = {}
              /\ lpc' = "sleep"
              /\ collecting' = collecting - 1
              /\ UNCHANGED aborted
         ELSE /\ Abort
              /\ UNCHANGED store
    /\ UNCHANGED <<phase, running, task, cancelReq, tick, now, listed, idx,
                   hostRes, listRes, contRes, enumSinceSleep, cancelPc>>

\* await asyncio.sleep(self.interval)
Sleep ==
    /\ task = "alive" /\ ~cancelReq
    /\ lpc = "sleep"
    /\ now' = now + Interval
    /\ enumSinceSleep' = 0
    /\ lpc' = "check"
    /\ UNCHANGED <<phase, running, task, cancelReq, tick, listed, idx, store,
                   staged, hostRes, listRes, contRes, aborted, collecting, cancelPc>>

\* variant: stop() only clears _running and waits, without task.cancel()
StopBegin_NoCancel ==
    /\ phase = "serving"
    /\ phase' = "stopping"
    /\ running' = FALSE
    /\ UNCHANGED <<cancelReq, task, lpc, tick, now, listed, idx, store, staged, hostRes,
                   listRes, contRes, aborted, collecting, enumSinceSleep, cancelPc>>

\* lifespan shutdown: await metrics_collector.stop(); first half up to await self._task
StopBegin ==
    /\ phase = "serving"
    /\ phase' = "stopping"
    /\ running' = FALSE
    /\ cancelReq' = (task = "alive")
    /\ UNCHANGED <<task, lpc, tick, now, listed, idx, store, staged, hostRes,
                   listRes, contRes, aborted, collecting, enumSinceSleep, cancelPc>>

\* CancelledError raised at the await the loop task is suspended on; it is not
\* an Exception, so it leaves the loop; the session closes and rolls back
CancelTask ==
    /\ task = "alive" /\ cancelReq
    /\ task' = "done"
    /\ cancelPc' = lpc
    /\ lpc' = "done"
    /\ staged' = {}
    /\ collecting' = 0
    /\ UNCHANGED <<phase, running, cancelReq, tick, now, listed, idx, store,
                   hostRes, listRes, contRes, aborted, enumSinceSleep>>

\* await self._task returns; await self.engine.dispose()
StopFinish ==
    /\ phase = "stopping"
    /\ task # "alive"
    /\ phase' = "stopped"
    /\ UNCHANGED <<running, task, cancelReq, lpc, tick, now, listed, idx, store,
                   staged, hostRes, listRes, contRes, aborted, collecting,
                   enumSinceSleep, cancelPc>>

TaskStep ==
    \/ Check
    \/ CollectAndStoreSystemStats
    \/ ListAllContainers
    \/ CollectAndStoreContainerStats
    \/ SessionCommit
    \/ Sleep
    \/ CancelTask

Next ==
    /\ \/ Start
       \/ TaskStep
       \/ StopBegin
       \/ StopFinish
    /\ UNCHANGED <<fvars, pvars, mvars>>

Spec == Init /\ [][Next]_vars

\* the event loop keeps running the collector task and the lifespan coroutine
FairSpec == Spec /\ WF_vars(TaskStep /\ UNCHANGED <<fvars, pvars, mvars>>)
            /\ WF_vars(StopFinish /\ UNCHANGED <<fvars, pvars, mvars>>)

\* ---------------------------------------------------------------- rate computation

\* Python round(x, 2) of the non-negative rational n / d, in hundredths:
\* round half to even
RoundHalfEven(n, d) ==
    LET q == n \div d
        r == n % d
    IN IF 2 * r > d THEN q + 1
       ELSE IF 2 * r < d THEN q
       ELSE IF q % 2 = 0 THEN q ELSE q + 1

\* variant: the ratio is inverted (system_delta / cpu_delta)
CpuPercent_Inverted(sd) ==
    LET cpu_delta == sd.curTotal - sd.prevTotal
        system_delta == sd.curSys - sd.prevSys
        num_cpus == sd.cpus
    IN IF system_delta > 0 /\ cpu_delta > 0
       THEN RoundHalfEven(system_delta * num_cpus * 100 * 100, cpu_delta)
       ELSE 0

\* variant: only system_delta is tested before dividing
CpuPercent_NoCpuGuard(sd) ==
    LET cpu_delta == sd.curTotal - sd.prevTotal
        system_delta == sd.curSys - sd.prevSys
        num_cpus == sd.cpus
    IN IF system_delta > 0
       THEN IF cpu_delta >= 0
            THEN RoundHalfEven(cpu_delta * num_cpus * 100 * 100, system_delta)
            ELSE -RoundHalfEven(-cpu_delta * num_cpus * 100 * 100, system_delta)
       ELSE 0

\* get_container_stats_formatted: cpu_percent, reported as round(cpu_percent, 2);
\* the result is in hundredths of a percent
CpuPercent(sd) ==
    LET cpu_delta == sd.curTotal - sd.prevTotal
        system_delta == sd.curSys - sd.prevSys
        num_cpus == sd.cpus
    IN IF system_delta > 0 /\ cpu_delta > 0
       THEN RoundHalfEven(cpu_delta * num_cpus * 100 * 100, system_delta)
       ELSE 0

\* cpu_stats / precpu_stats snapshot pairs the runtime can report
CpuInputs ==
    [prevTotal : 0..MaxCounter, curTotal : 0..MaxCounter,
     prevSys : 0..MaxCounter, curSys : 0..MaxCounter, cpus : 1..MaxCpus]

CpuInit == CollectorInit /\ DbIdle /\ McIdle /\ fin \in CpuInputs /\ fout = <<>>

ComputeCpuPercent ==
    /\ fout = <<>>
    /\ fout' = <<CpuPercent(fin)>>
    /\ UNCHANGED <<cvars, fin, pvars, mvars>>

CpuSpec == CpuInit /\ [][ComputeCpuPercent]_vars

\* get_container_stats_formatted: memory_percent = (memory_usage / memory_limit) * 100.0
\* with memory_limit = memory_stats.get("limit", 1); a zero limit raises
\* ZeroDivisionError, caught into {"error": "Error parsing stats: ..."}.
\* Result in hundredths of a percent.
FormatContainerStats(sd) ==
    LET memory_usage == sd.usage
        memory_limit == IF sd.hasLimit THEN sd.limit ELSE 1
    IN IF memory_limit = 0
       THEN [error |-> TRUE, memory_percent |-> 0]
       ELSE [error |-> FALSE,
             memory_percent |-> RoundHalfEven(memory_usage * 100 * 100, memory_limit)]

\* collect_and_store_container_stats for a registered container: a formatted
\* result carrying "error" returns None before the row is added
StoresContainerSample(fmt) == ~fmt.error

MemInputs ==
    [usage : (0..MaxMem) \cup {500}, limit : (0..MaxMem) \cup {1000}, hasLimit : BOOLEAN]

MemInit == CollectorInit /\ DbIdle /\ McIdle /\ fin \in MemInputs /\ fout = <<>>

ComputeContainerSample ==
    /\ fout = <<>>
    /\ LET fmt == FormatContainerStats(fin)
       IN fout' = <<[error |-> fmt.error, memory_percent |-> fmt.memory_percent,
                     stored |-> StoresContainerSample(fmt)]>>
    /\ UNCHANGED <<cvars, fin, pvars, mvars>>

MemSpec == MemInit /\ [][ComputeContainerSample]_vars

\* ---------------------------------------------------------------- history query

\* periods dict of get_system_stats_history / get_container_stats_history,
\* with periods.get(period, timedelta(hours=1))
PeriodDelta(p) ==
    CASE p = "1h" -> 3600
      [] p = "6h" -> 6 * 3600
      [] p = "24h" -> 24 * 3600
      [] p = "7d" -> 7 * 86400
      [] p = "30d" -> 30 * 86400
      [] OTHER -> 3600

\* order_by(asc(timestamp)) of a set of rows with distinct timestamps
RECURSIVE SortByTs(_)
SortByTs(S) ==
    IF S = {} THEN <<>>
    ELSE LET m == CHOOSE r \in S : \A q \in S : r.ts <= q.ts
         IN <<m>> \o SortByTs(S \ {m})

\* get_system_stats_history(period, aggregate=False) at time nowT:
\* select where timestamp >= now - delta order by timestamp asc
GetSystemStatsHistory(rows, period, nowT) ==
    SortByTs({ r \in rows : r.ts >= nowT - PeriodDelta(period) })

HistInputs ==
    [rows : SUBSET { [ts |-> t] : t \in SampleTimes },
     period : {"1h", "6h", "2h"},
     now : {3600, 3660}]

HistInit == CollectorInit /\ DbIdle /\ McIdle /\ fin \in HistInputs /\ fout = <<>>

QueryHistory ==
    /\ fout = <<>>
    /\ fout' = <<GetSystemStatsHistory(fin.rows, fin.period, fin.now)>>
    /\ UNCHANGED <<cvars, fin, pvars, mvars>>

HistSpec == HistInit /\ [][QueryHistory]_vars

\* ---------------------------------------------------------------- aggregation

\* variant: 7d mapped to 1800 s buckets
IntervalSeconds_7dHalf(p) ==
    CASE p = "1h" -> 60
      [] p = "6h" -> 300
      [] p = "24h" -> 900
      [] p = "7d" -> 1800
      [] p = "30d" -> 14400
      [] OTHER -> 60

\* interval_map.get(period, 60) of _aggregate_system_stats / _aggregate_container_stats
IntervalSeconds(p) ==
    CASE p = "1h" -> 60
      [] p = "6h" -> 300
      [] p = "24h" -> 900
      [] p = "7d" -> 3600
      [] p = "30d" -> 14400
      [] OTHER -> 60

\* Python int() of a / w: truncation toward zero
TruncDiv(a, w) == IF a >= 0 THEN a \div w ELSE -((-a) \div w)

\* interval_key for a naive-UTC timestamp ts (seconds) on a host whose local
\* zone is off seconds east of UTC: stat.timestamp.timestamp() reads the naive
\* value as local time (ts - off), int(... / w) * w truncates, and
\* datetime.fromtimestamp() renders the result as local time again (+ off)
IntervalKey(ts, w, off) == TruncDiv(ts - off, w) * w + off

SeqSum(s) == LET F[i \in 0..Len(s)] == IF i = 0 THEN 0 ELSE F[i - 1] + s[i] IN F[Len(s)]
SeqMax(s) == CHOOSE m \in Range(s) : \A x \in Range(s) : x <= m
SeqMin(s) == CHOOSE m \in Range(s) : \A x \in Range(s) : m <= x

\* variant: samples keyed by timestamp, a later sample with the same timestamp
\* replacing the earlier one
Column_LastPerTs(rows, field, w, off, k) ==
    LET idxs == { i \in 1..Len(rows) : IntervalKey(rows[i].ts, w, off) = k
                                       /\ ~\E j \in i + 1..Len(rows) : rows[j].ts = rows[i].ts }
        RECURSIVE Pick(_)
        Pick(S) == IF S = {} THEN <<>>
                   ELSE LET i == CHOOSE j \in S : \A q \in S : j <= q
                        IN <<rows[i][field]>> \o Pick(S \ {i})
    IN Pick(idxs)

\* the list aggregated[key][field]: values in the order the rows were read
Column(rows, field, w, off, k) ==
    LET idxs == { i \in 1..Len(rows) : IntervalKey(rows[i].ts, w, off) = k }
        RECURSIVE Pick(_)
        Pick(S) == IF S = {} THEN <<>>
                   ELSE LET i == CHOOSE j \in S : \A q \in S : j <= q
                        IN <<rows[i][field]>> \o Pick(S \ {i})
    IN Pick(idxs)

\* sum(values) / len(values), kept as the exact fraction [n, d]
Avg(vs) == [n |-> SeqSum(vs), d |-> Len(vs)]
Last(vs) == vs[Len(vs)]

\* sorted(aggregated.items()) keys
SortedKeys(rows, w, off) ==
    LET K == { IntervalKey(rows[i].ts, w, off) : i \in 1..Len(rows) }
        RECURSIVE Srt(_)
        Srt(S) == IF S = {} THEN <<>>
                  ELSE LET m == CHOOSE k \in S : \A q \in S : k <= q
                       IN <<m>> \o Srt(S \ {m})
    IN Srt(K)

\* _aggregate_system_stats(stats, period) on the rows in query order
AggregateSystemStats(rows, period, off) ==
    LET w == IntervalSeconds(period)
        ks == SortedKeys(rows, w, off)
    IN [i \in 1..Len(ks) |->
          LET k == ks[i]
              C(f) == Column(rows, f, w, off, k)
          IN [timestamp |-> k, n |-> Len(C("ts")),
              cpu_usage_avg |-> Avg(C("cpu")), cpu_usage_max |-> SeqMax(C("cpu")),
              cpu_usage_min |-> SeqMin(C("cpu")),
              memory_usage_avg |-> Avg(C("mem")), memory_usage_max |-> SeqMax(C("mem")),
              memory_usage_min |-> SeqMin(C("mem")),
              network_rx |-> Last(C("rx")), network_tx |-> Last(C("tx")),
              disk_usage |-> Last(C("disk")), load_avg_1m |-> Last(C("load"))]]

\* _aggregate_container_stats(stats, period) on the rows in query order
AggregateContainerStats(rows, period, off) ==
    LET w == IntervalSeconds(period)
        ks == SortedKeys(rows, w, off)
    IN [i \in 1..Len(ks) |->
          LET k == ks[i]
              C(f) == Column(rows, f, w, off, k)
          IN [timestamp |-> k, n |-> Len(C("ts")),
              cpu_usage_avg |-> Avg(C("cpu")), cpu_usage_max |-> SeqMax(C("cpu")),
              memory_usage_avg |-> Avg(C("mem")), memory_usage_max |-> SeqMax(C("mem")),
              network_rx |-> Last(C("rx")), network_tx |-> Last(C("tx"))]]

AggTimes == {0, 30, 3600, 14400}
AggVals == {10, 20, 30}
\* local zone offsets east of UTC (UTC, UTC+1)
ZoneOffsets == {0, 3600}

\* a stored row; gauges and counters not drawn separately follow cpu / rx
AggRow(t, c, x) ==
    [ts |-> t, cpu |-> c, mem |-> c, disk |-> c, load |-> c,
     rx |-> x, tx |-> x, block_read |-> x, block_write |-> x]

\* rows as returned by order_by(asc(timestamp)): ascending distinct timestamps
AggRowSeqs ==
    { r \in UNION { [1..n -> { AggRow(t, c, x) : t \in AggTimes, c \in AggVals, x \in AggVals }]
                    : n \in 1..MaxAggRows } :
        \A i \in 1..Len(r) - 1 : r[i].ts < r[i + 1].ts }

AggInputs == [rows : AggRowSeqs, period : {"1h", "30d"}, off : ZoneOffsets]

AggInit == CollectorInit /\ DbIdle /\ McIdle /\ fin \in AggInputs /\ fout = <<>>

AggregateHistory ==
    /\ fout = <<>>
    /\ fout' = <<[sys |-> AggregateSystemStats(fin.rows, fin.period, fin.off),
                  cont |-> AggregateContainerStats(fin.rows, fin.period, fin.off)]>>
    /\ UNCHANGED <<cvars, fin, pvars, mvars>>

AggSpec == AggInit /\ [][AggregateHistory]_vars

\* one week of samples taken every MetricsCollector.interval seconds
WeekSamples == (7 * 24 * 3600) \div Interval

\* first-sample instants of the week (every 30 s across one hour) and zone offsets
WeekInputs == [start : { 30 * k : k \in 0..119 }, off : ZoneOffsets \cup {19800}]

\* number of buckets _aggregate_system_stats emits for period "7d" over the
\* samples start, start + Interval, ...: the number of distinct interval keys
WeekBucketCount(start, off) ==
    Cardinality({ IntervalKey(start + Interval * i, IntervalSeconds("7d"), off)
                  : i \in 0..WeekSamples - 1 })

WeekInit == CollectorInit /\ DbIdle /\ McIdle /\ fin \in WeekInputs /\ fout = <<>>

AggregateWeek ==
    /\ fout = <<>>
    /\ fout' = <<WeekBucketCount(fin.start, fin.off)>>
    /\ UNCHANGED <<cvars, fin, pvars, mvars>>

WeekSpec == WeekInit /\ [][AggregateWeek]_vars

\* ---------------------------------------------------------------- trends

\* variant: the increasing / decreasing thresholds are inclusive
TrendOf_Inclusive(first_value, last_value) ==
    LET ch == IF first_value > 0
              THEN [n |-> (last_value - first_value) * 100, d |-> first_value]
              ELSE [n |-> 0, d |-> 1]
    IN [change |-> ch,
        trend |-> IF ch.n >= 5 * ch.d THEN "increasing"
                  ELSE IF ch.n <= -5 * ch.d THEN "decreasing"
                  ELSE "stable"]

\* get_resource_trends from first_value / last_value on: change_percent as the
\* exact fraction [n, d] and the trend classification
TrendOf(first_value, last_value) ==
    LET ch == IF first_value > 0
              THEN [n |-> (last_value - first_value) * 100, d |-> first_value]
              ELSE [n |-> 0, d |-> 1]
    IN [change |-> ch,
        trend |-> IF ch.n > 5 * ch.d THEN "increasing"
                  ELSE IF ch.n < -5 * ch.d THEN "decreasing"
                  ELSE "stable"]

TrendVals == (0..MaxTrendVal) \cup {19, 20, 21, 95, 100, 105}

TrendInit == CollectorInit /\ DbIdle /\ McIdle /\ fin \in [first : TrendVals, last : TrendVals] /\ fout = <<>>

ClassifyTrend ==
    /\ fout = <<>>
    /\ fout' = <<TrendOf(fin.first, fin.last)>>
    /\ UNCHANGED <<cvars, fin, pvars, mvars>>

TrendSpec == TrendInit /\ [][ClassifyTrend]_vars

\* dict.get(key, 0) on an aggregated bucket
DictGet(rec, key) == IF key \in DOMAIN rec THEN rec[key] ELSE 0

\* Python "a or b" on a number
PyOr(a, b) == IF a = 0 THEN b ELSE a

\* get_resource_trends(metric, period) on stats = get_system_stats_history(period, aggregate=True)
GetResourceTrends(metric, stats) ==
    IF Len(stats) = 0
    THEN [trend |-> "unknown", change |-> [n |-> 0, d |-> 1]]
    ELSE IF Len(stats) < 2
    THEN [trend |-> "stable", change |-> [n |-> 0, d |-> 1]]
    ELSE LET first_value == PyOr(DictGet(stats[1], metric \o "_avg"), DictGet(stats[1], metric))
             last_value == PyOr(DictGet(stats[Len(stats)], metric \o "_avg"),
                                DictGet(stats[Len(stats)], metric))
         IN TrendOf(first_value, last_value)

TrendMetrics == {"cpu", "memory", "disk", "network"}

ResTrendInit ==
    CollectorInit /\ DbIdle /\ McIdle /\ fin \in [rows : AggRowSeqs, metric : TrendMetrics] /\ fout = <<>>

ComputeResourceTrends ==
    /\ fout = <<>>
    /\ fout' = <<[stats |-> AggregateSystemStats(fin.rows, "1h", 0),
                  res |-> GetResourceTrends(fin.metric, AggregateSystemStats(fin.rows, "1h", 0))]>>
    /\ UNCHANGED <<cvars, fin, pvars, mvars>>

ResTrendSpec == ResTrendInit /\ [][ComputeResourceTrends]_vars

\* ---------------------------------------------------------------- top consumers

\* containers.id values of stored samples; ids in TopRegistered have a Container row
TopIds == {1, 2, 3}
TopRegistered == {1, 2}
TopVals == {10, 20}

\* a ContainerStats row as stored (memory follows cpu, tx follows rx)
TopRow(cid, v) == [container_id |-> cid, cpu_usage |-> v, memory_usage |-> v,
                   network_rx |-> v, network_tx |-> v]

\* result.scalars().all() of the un-ordered select: any storage order
TopRowSeqs == UNION { [1..n -> { TopRow(c, v) : c \in TopIds, v \in TopVals }] : n \in 1..MaxTopRows }

\* container_stats keys in first-appearance (dict insertion) order
RECURSIVE FirstAppearance(_, _)
FirstAppearance(rows, seen) ==
    IF rows = <<>> THEN seen
    ELSE LET c == Head(rows).container_id
         IN FirstAppearance(Tail(rows), IF \E i \in 1..Len(seen) : seen[i] = c
                                         THEN seen ELSE Append(seen, c))

\* the sort key of one container as a fraction [n, d]
ConsumerKey(rows, cid, metric) ==
    LET mine == { i \in 1..Len(rows) : rows[i].container_id = cid }
        val(r) == CASE metric = "cpu" -> r.cpu_usage
                    [] metric = "memory" -> r.memory_usage
                    [] OTHER -> r.network_rx + r.network_tx
        RECURSIVE tot(_)
        tot(I) == IF I = {} THEN 0
                  ELSE LET i == CHOOSE j \in I : TRUE IN val(rows[i]) + tot(I \ {i})
    IN IF metric \in {"cpu", "memory"}
       THEN [n |-> tot(mine), d |-> Cardinality(mine)]
       ELSE [n |-> tot(mine), d |-> 1]

\* list.sort(key, reverse=True): descending and stable (equal keys keep list order)
StableSortDesc(seq, key) ==
    LET before(i, j) == key[seq[i]].n * key[seq[j]].d > key[seq[j]].n * key[seq[i]].d
                        \/ (key[seq[i]].n * key[seq[j]].d = key[seq[j]].n * key[seq[i]].d
                            /\ i < j)
        rank(j) == Cardinality({ i \in 1..Len(seq) : before(i, j) }) + 1
    IN [r \in 1..Len(seq) |-> seq[CHOOSE j \in 1..Len(seq) : rank(j) = r]]

\* first limit elements, consumers[:limit]
Prefix(seq, limit) == SubSeq(seq, 1, IF limit < Len(seq) THEN limit ELSE Len(seq))

\* get_top_consumers(metric, limit, period) on the rows of the window, as container ids
GetTopConsumers(rows, metric, limit) ==
    LET grouped == FirstAppearance(rows, <<>>)
        consumers == SelectSeq(grouped, LAMBDA c : c \in TopRegistered)
        key == [c \in TopIds |-> ConsumerKey(rows, c, metric)]
    IN Prefix(StableSortDesc(consumers, key), limit)

TopInit ==
    CollectorInit /\ DbIdle /\ McIdle
    /\ fin \in [rows : TopRowSeqs, metric : {"cpu", "memory", "network"}, limit : {1, 2}]
    /\ fout = <<>>

ComputeTopConsumers ==
    /\ fout = <<>>
    /\ fout' = <<GetTopConsumers(fin.rows, fin.metric, fin.limit)>>
    /\ UNCHANGED <<cvars, fin, pvars, mvars>>

TopSpec == TopInit /\ [][ComputeTopConsumers]_vars

\* ---------------------------------------------------------------- lookback windows

\* get_container_stats_history's periods map (used by compare_containers)
ContainerPeriodDelta(p) ==
    CASE p = "1h" -> 3600
      [] p = "6h" -> 6 * 3600
      [] p = "24h" -> 24 * 3600
      [] p = "7d" -> 7 * 86400
      [] p = "30d" -> 30 * 86400
      [] OTHER -> 3600

\* get_top_consumers's delta map: {"1h", "24h", "7d"}.get(period, 1h)
TopConsumersDelta(p) ==
    CASE p = "1h" -> 3600
      [] p = "24h" -> 24 * 3600
      [] p = "7d" -> 7 * 86400
      [] OTHER -> 3600

\* the lookback each caller applies: history and compare (through
\* get_container_stats_history) and top_consumers
CallerDelta(caller, p) ==
    CASE caller = "history" -> PeriodDelta(p)
      [] caller = "compare" -> ContainerPeriodDelta(p)
      [] OTHER -> TopConsumersDelta(p)

\* periods the routes accept (Query pattern ^(1h|6h|24h|7d|30d)$)
ApiPeriods == {"1h", "6h", "24h", "7d", "30d"}

\* ages now - timestamp of a stored sample, in seconds
SampleAges == {0, 3600, 3601, 6 * 3600, 24 * 3600, 7 * 86400, 30 * 86400, 30 * 86400 + 1}

WindowInit ==
    CollectorInit /\ DbIdle /\ McIdle
    /\ fin \in [caller : {"history", "top", "compare"}, period : ApiPeriods, age : SampleAges]
    /\ fout = <<>>

\* where(timestamp >= now - delta): is the sample in the caller's window
SelectWindow ==
    /\ fout = <<>>
    /\ fout' = <<fin.age <= CallerDelta(fin.caller, fin.period)>>
    /\ UNCHANGED <<cvars, fin, pvars, mvars>>

WindowSpec == WindowInit /\ [][SelectWindow]_vars

\* ---------------------------------------------------------------- core query operations

\* the StatsService operations taking a period or a retention: history
\* (get_system_stats_history / get_container_stats_history), get_top_consumers,
\* compare_containers, get_resource_trends, prune_old_stats
Operations == {"history", "top", "compare", "trend", "prune"}

\* period strings passed in, including ones outside the supported set
OpPeriods == ApiPeriods \cup {"2h", "1H", ""}

\* retention_days passed to prune_old_stats
OpRetention == {-1, 0, 1, 30}

\* the operation on its arguments: none of them checks its period or retention
\* (periods.get(period, timedelta(hours=1)), cutoff_date = utcnow() - days), so it
\* always runs its query with this lookback, or this prune cutoff age, in seconds
CoreOperation(op, period, retention) ==
    [rejected |-> FALSE, queried |-> TRUE,
     lookback |-> CASE op = "prune" -> retention * 86400
                    [] op = "top" -> TopConsumersDelta(period)
                    [] op = "compare" -> ContainerPeriodDelta(period)
                    [] OTHER -> PeriodDelta(period)]

OpInit ==
    CollectorInit /\ DbIdle /\ McIdle
    /\ fin \in [op : Operations, period : OpPeriods, retention : OpRetention]
    /\ fout = <<>>

CallOperation ==
    /\ fout = <<>>
    /\ fout' = <<CoreOperation(fin.op, fin.period, fin.retention)>>
    /\ UNCHANGED <<cvars, fin, pvars, mvars>>

OpSpec == OpInit /\ [][CallOperation]_vars

\* ---------------------------------------------------------------- pruning

SampleKinds == {"system", "container"}

\* cutoff_date = utcnow() - timedelta(days=retention_days), on a clock where
\* stored samples are 1 (older), 2 (exactly at the cutoff) or 3 (fresh)
PruneCutoff == 2
FreshTs == 3

\* rows stored before the prunes: per kind, id 1 older than the cutoff, id 2 at it
StoredRows == { [kind |-> k, id |-> i, ts |-> i] : k \in SampleKinds, i \in {1, 2} }

\* variant: the delete / count filter with timestamp <= cutoff_date
OlderThan_Inclusive(r, cutoff) == r.ts <= cutoff

\* Model.timestamp < cutoff_date
OlderThan(r, cutoff) == r.ts < cutoff

\* rows a connection reads: committed rows (the SELECT of another connection does
\* not see an open write transaction), minus its own uncommitted deletions
Visible(p) == dbrows \ pdel[p]

Qualifying(p, kind) == { r \in Visible(p) : r.kind = kind /\ OlderThan(r, PruneCutoff) }

DbInit ==
    /\ dbrows \in SUBSET StoredRows
    /\ db0 = dbrows
    /\ writer = 0
    /\ ppc = [p \in PruneProcs |-> "idle"]
    /\ pcount = [p \in PruneProcs |-> NoCounts]
    /\ premoved = [p \in PruneProcs |-> NoCounts]
    /\ pdel = [p \in PruneProcs |-> {}]
    /\ inserted = 0
    /\ cpending = {}

\* prune_old_stats(retention_days): cutoff_date computed
PruneBegin(p) ==
    /\ ppc[p] = "idle"
    /\ ppc' = [ppc EXCEPT ![p] = "count_sys"]
    /\ UNCHANGED <<dbrows, db0, writer, pcount, premoved, pdel, inserted, cpending>>

\* select(func.count()).select_from(SystemStats).where(timestamp < cutoff_date)
CountSystem(p) ==
    /\ ppc[p] = "count_sys"
    /\ pcount' = [pcount EXCEPT ![p].system = Cardinality(Qualifying(p, "system"))]
    /\ ppc' = [ppc EXCEPT ![p] = "del_sys"]
    /\ UNCHANGED <<dbrows, db0, writer, premoved, pdel, inserted, cpending>>

\* SystemStats.__table__.delete().where(timestamp < cutoff_date): the driver opens
\* the transaction, the statement waits for the write lock
DeleteSystem(p) ==
    /\ ppc[p] = "del_sys"
    /\ writer \in {0, p}
    /\ writer' = p
    /\ pdel' = [pdel EXCEPT ![p] = @ \cup Qualifying(p, "system")]
    /\ premoved' = [premoved EXCEPT ![p].system = Cardinality(Qualifying(p, "system"))]
    /\ ppc' = [ppc EXCEPT ![p] = "count_cont"]
    /\ UNCHANGED <<dbrows, db0, pcount, inserted, cpending>>

\* select(func.count()).select_from(ContainerStats).where(timestamp < cutoff_date)
CountContainer(p) ==
    /\ ppc[p] = "count_cont"
    /\ pcount' = [pcount EXCEPT ![p].container = Cardinality(Qualifying(p, "container"))]
    /\ ppc' = [ppc EXCEPT ![p] = "del_cont"]
    /\ UNCHANGED <<dbrows, db0, writer, premoved, pdel, inserted, cpending>>

\* ContainerStats.__table__.delete().where(timestamp < cutoff_date)
DeleteContainer(p) ==
    /\ ppc[p] = "del_cont"
    /\ writer \in {0, p}
    /\ writer' = p
    /\ pdel' = [pdel EXCEPT ![p] = @ \cup Qualifying(p, "container")]
    /\ premoved' = [premoved EXCEPT ![p].container = Cardinality(Qualifying(p, "container"))]
    /\ ppc' = [ppc EXCEPT ![p] = "commit"]
    /\ UNCHANGED <<dbrows, db0, pcount, inserted, cpending>>

\* await self.db.commit(): the deletions become visible at once, the lock is released
PruneCommit(p) ==
    /\ ppc[p] = "commit"
    /\ writer = p
    /\ dbrows' = dbrows \ pdel[p]
    /\ pdel' = [pdel EXCEPT ![p] = {}]
    /\ writer' = 0
    /\ ppc' = [ppc EXCEPT ![p] = "done"]
    /\ UNCHANGED <<db0, pcount, premoved, inserted, cpending>>

\* the connection the collector's session writes through
CollectorConn == 3

\* db.add(stats); await db.commit(): the flush INSERTs the fresh sample (timestamp
\* utcnow()), which opens the transaction and takes the write lock
CollectorAdd ==
    /\ inserted < MaxInserts
    /\ writer = 0
    /\ writer' = CollectorConn
    /\ \E k \in SampleKinds : cpending' = {[kind |-> k, id |-> 3, ts |-> FreshTs]}
    /\ inserted' = inserted + 1
    /\ UNCHANGED <<dbrows, db0, ppc, pcount, premoved, pdel>>

\* the COMMIT of that session: the row becomes visible, the lock is released
CollectorCommit ==
    /\ writer = CollectorConn
    /\ dbrows' = dbrows \cup cpending
    /\ cpending' = {}
    /\ writer' = 0
    /\ UNCHANGED <<db0, ppc, pcount, premoved, pdel, inserted>>

PruneStep(p) ==
    \/ CountSystem(p) \/ DeleteSystem(p) \/ CountContainer(p)
    \/ DeleteContainer(p) \/ PruneCommit(p)

\* concurrent prune requests and collector writes
PruneNext ==
    /\ \/ \E p \in PruneProcs : PruneBegin(p) \/ PruneStep(p)
       \/ CollectorAdd \/ CollectorCommit
    /\ UNCHANGED <<cvars, fvars, mvars>>

PruneInit == CollectorInit /\ DbInit /\ McIdle /\ fin = <<>> /\ fout = <<>>

PruneSpec == PruneInit /\ [][PruneNext]_vars

\* a second prune issued after the first returned
PruneSeqNext ==
    /\ \/ \E p \in PruneProcs :
            \/ PruneBegin(p) /\ \A q \in PruneProcs : q < p => ppc[q] = "done"
            \/ PruneStep(p)
       \/ CollectorAdd \/ CollectorCommit
    /\ UNCHANGED <<cvars, fvars, mvars>>

PruneSeqSpec == PruneInit /\ [][PruneSeqNext]_vars

\* ---------------------------------------------------------------- formatted container stats

\* a stats snapshot as container.stats(stream=False) returns it: precpu_stats
\* complete, lacking cpu_usage, lacking system_cpu_usage, or absent; where
\* system_cpu_usage sits in cpu_stats ("cpu_stats" as the runtime reports it,
\* "cpu_usage" nested one level deeper); memory_stats present or absent, with or
\* without a limit
SnapshotInputs ==
    [prevTotal : 0..1, curTotal : 0..1, prevSys : 0..1, curSys : 0..1, cpus : 1..MaxCpus,
     precpu : {"full", "no_cpu_usage", "no_system", "absent"},
     sysAt : {"cpu_stats", "cpu_usage"},
     memPresent : BOOLEAN, usage : {0, 500}, limit : {0, 1000}, hasLimit : BOOLEAN]

\* get_container_stats_formatted on a snapshot: the subscripts are evaluated in
\* the order of the try block, and the first KeyError / ZeroDivisionError becomes
\* {"error": "Error parsing stats: " + str(e)}
GetContainerStatsFormatted(snap) ==
    LET fmt == FormatContainerStats(snap)
    IN IF snap.precpu = "absent"
       THEN [error |-> "Error parsing stats: 'precpu_stats'"]
       ELSE IF snap.precpu = "no_cpu_usage"
       THEN [error |-> "Error parsing stats: 'cpu_usage'"]
       ELSE IF snap.sysAt # "cpu_stats"
       THEN [error |-> "Error parsing stats: 'system_cpu_usage'"]
       ELSE IF snap.precpu = "no_system"
       THEN [error |-> "Error parsing stats: 'system_cpu_usage'"]
       ELSE IF ~snap.memPresent
       THEN [error |-> "Error parsing stats: 'memory_stats'"]
       ELSE IF fmt.error
       THEN [error |-> "Error parsing stats: division by zero"]
       ELSE [container_id |-> "c", cpu_usage |-> CpuPercent(snap),
             memory_percent |-> fmt.memory_percent]

FormattedInit == CollectorInit /\ DbIdle /\ McIdle /\ fin \in SnapshotInputs /\ fout = <<>>

FormatSnapshot ==
    /\ fout = <<>>
    /\ fout' = <<GetContainerStatsFormatted(fin)>>
    /\ UNCHANGED <<cvars, fin, pvars, mvars>>

FormattedSpec == FormattedInit /\ [][FormatSnapshot]_vars

\* ---------------------------------------------------------------- start / stop calls

\* variant: start() without the "if self._running: return" guard
StartCall_Unguarded ==
    /\ nstarts < MaxStarts
    /\ nstarts' = nstarts + 1
    /\ LET k == nstarts + 1
       IN /\ mrun' = TRUE
          /\ mtask' = k
          /\ tst' = [tst EXCEPT ![k] = "loop"]
          /\ tpos' = [tpos EXCEPT ![k] = "tick"]
    /\ UNCHANGED <<tcan, spc, sawait>>

\* await metrics_collector.start(): no await between the _running test and
\* create_task, so the call runs as one step of the event loop
StartCall ==
    /\ nstarts < MaxStarts
    /\ nstarts' = nstarts + 1
    /\ IF mrun
       THEN UNCHANGED <<mrun, mtask, tst, tpos>>
       ELSE LET k == nstarts + 1
            IN /\ mrun' = TRUE
               /\ mtask' = k
               /\ tst' = [tst EXCEPT ![k] = "loop"]
               /\ tpos' = [tpos EXCEPT ![k] = "tick"]
    /\ UNCHANGED <<tcan, spc, sawait>>

\* stop(): _running = False; if self._task: self._task.cancel(); await self._task
StopCall(c) ==
    /\ spc[c] = "idle"
    /\ mrun' = FALSE
    /\ IF mtask # 0
       THEN /\ tcan' = [tcan EXCEPT ![mtask] = TRUE]
            /\ sawait' = [sawait EXCEPT ![c] = mtask]
            /\ spc' = [spc EXCEPT ![c] = "await"]
       ELSE /\ spc' = [spc EXCEPT ![c] = "dispose"]
            /\ UNCHANGED <<tcan, sawait>>
    /\ UNCHANGED <<mtask, tst, tpos, nstarts>>

\* stop() resumes once the awaited task is done (CancelledError swallowed)
StopAwaited(c) ==
    /\ spc[c] = "await"
    /\ tst[sawait[c]] = "done"
    /\ spc' = [spc EXCEPT ![c] = "dispose"]
    /\ UNCHANGED <<mrun, mtask, tst, tpos, tcan, sawait, nstarts>>

\* await self.engine.dispose(); stop() returns
StopDispose(c) ==
    /\ spc[c] = "dispose"
    /\ spc' = [spc EXCEPT ![c] = "done"]
    /\ UNCHANGED <<mrun, mtask, tst, tpos, tcan, sawait, nstarts>>

\* one tick of _collection_loop in its session, ending at the sleep
LoopTick(t) ==
    /\ tst[t] = "loop" /\ ~tcan[t] /\ tpos[t] = "tick"
    /\ tpos' = [tpos EXCEPT ![t] = "sleep"]
    /\ UNCHANGED <<mrun, mtask, tst, tcan, spc, sawait, nstarts>>

\* the sleep ends: while self._running
LoopWake(t) ==
    /\ tst[t] = "loop" /\ ~tcan[t] /\ tpos[t] = "sleep"
    /\ IF mrun
       THEN /\ tpos' = [tpos EXCEPT ![t] = "tick"]
            /\ UNCHANGED tst
       ELSE /\ tst' = [tst EXCEPT ![t] = "done"]
            /\ UNCHANGED tpos
    /\ UNCHANGED <<mrun, mtask, tcan, spc, sawait, nstarts>>

\* CancelledError at the task's await: at the sleep the task ends, inside the tick
\* it leaves the async with block, which closes the session
LoopCancelled(t) ==
    /\ tst[t] = "loop" /\ tcan[t]
    /\ tst' = [tst EXCEPT ![t] = IF tpos[t] = "tick" THEN "cleanup" ELSE "done"]
    /\ UNCHANGED <<mrun, mtask, tpos, tcan, spc, sawait, nstarts>>

\* the session close finishes and the task ends
LoopCleanup(t) ==
    /\ tst[t] = "cleanup"
    /\ tst' = [tst EXCEPT ![t] = "done"]
    /\ UNCHANGED <<mrun, mtask, tpos, tcan, spc, sawait, nstarts>>

\* any interleaving of start() / stop() calls with the loop tasks they create
McNext ==
    /\ \/ StartCall
       \/ \E c \in StopCallers : StopCall(c) \/ StopAwaited(c) \/ StopDispose(c)
       \/ \E t \in TaskSlots :
            LoopTick(t) \/ LoopWake(t) \/ LoopCancelled(t) \/ LoopCleanup(t)
    /\ UNCHANGED <<cvars, fvars, pvars>>

McInit == CollectorInit /\ DbIdle /\ McIdle /\ fin = <<>> /\ fout = <<>>

McSpec == McInit /\ [][McNext]_vars

\* ---------------------------------------------------------------- repeated aggregation

DetTimes == {0, 30, 3600}
DetVals == {10, 20}

\* query results: rows in order_by(asc(timestamp)) order, equal timestamps allowed
DetRowSeqs ==
    { r \in UNION { [1..n -> { AggRow(t, v, v) : t \in DetTimes, v \in DetVals }]
                    : n \in 1..MaxAggRows } :
        \A i \in 1..Len(r) - 1 : r[i].ts <= r[i + 1].ts }

\* r2 holds the same samples as r1, possibly in another order
SameSamples(r1, r2) ==
    /\ Len(r1) = Len(r2)
    /\ \A i \in 1..Len(r1) :
          Cardinality({ j \in 1..Len(r1) : r1[j] = r1[i] })
            = Cardinality({ j \in 1..Len(r2) : r2[j] = r1[i] })

\* two runs of get_*_stats_history(period, aggregate=True) over the same stored
\* samples, each in a process with its own local zone
DetInit ==
    CollectorInit /\ DbIdle /\ McIdle
    /\ fin \in { x \in [r1 : DetRowSeqs, r2 : DetRowSeqs, period : {"1h", "30d"},
                        off1 : ZoneOffsets, off2 : ZoneOffsets] : SameSamples(x.r1, x.r2) }
    /\ fout = <<>>

AggregateTwice ==
    /\ fout = <<>>
    /\ fout' = <<[s1 |-> AggregateSystemStats(fin.r1, fin.period, fin.off1),
                  s2 |-> AggregateSystemStats(fin.r2, fin.period, fin.off2),
                  c1 |-> AggregateContainerStats(fin.r1, fin.period, fin.off1),
                  c2 |-> AggregateContainerStats(fin.r2, fin.period, fin.off2)]>>
    /\ UNCHANGED <<cvars, fin, pvars, mvars>>

DetSpec == DetInit /\ [][AggregateTwice]_vars

\* ---------------------------------------------------------------- properties

TickRows(t) == { r \in store : r.t = t }
HasRow(e, t) == \E r \in store : r.e = e /\ r.t = t
\* loop positions strictly inside a tick, before the whole container loop ran
MidTick == {"host", "list", "cont"}
RuntimeErrs == {"stats_err", "connect_err"}

\* C1: a reader never observes a partially committed tick: the rows of a tick
\* become visible in one step, so once any row of tick t is visible the set of
\* visible rows of tick t never changes again.
C1_TickAtomicVisibility ==
    [][\A t \in 1..MaxTicks : TickRows(t) # {} => TickRows(t)' = TickRows(t)]_vars

\* C2: after stop() has completed, a tick that was cancelled before it finished
\* its sampling has left none of its rows in the store.
C2_StopLeavesNoPartialTick ==
    (phase = "stopped" /\ cancelPc \in MidTick) => TickRows(tick) = {}

\* C3: when one running container B fails with a runtime error and nothing else
\* fails in the tick, the host sample and every other listed registered
\* container's sample of that tick are persisted.
C3_ContainerFailureIsolated ==
    (lpc = "sleep" /\ hostRes = "ok" /\ listRes = "ok"
     /\ \E b \in Range(listed) :
           /\ contRes[b] \in RuntimeErrs
           /\ \A c \in Range(listed) \ {b} : contRes[c] \in {"ok", "none", "unregistered"})
    => /\ HasRow(HostEntity, tick)
       /\ \A b \in Range(listed) :
            contRes[b] \in RuntimeErrs =>
              \A a \in (Range(listed) \cap Registered) \ {b} : HasRow(a, tick)

\* C4: a tick whose host sampling raised still enumerates the running containers.
C4_HostFailureStillEnumerates ==
    (lpc = "sleep" /\ hostRes \in {"fail_sample", "fail_refresh"}) => listRes # "none"

\* C5: a tick in which listing the containers fails (runtime unavailable) and the
\* host sample succeeds ends with the host row stored, no container row stored,
\* once the tick is past its container phase; and while the collector runs, a
\* failed listing is always followed by the start of the next tick (up to the
\* tick bound): nothing raises out of the loop.
C5_RuntimeDownKeepsHostSample ==
    /\ [](/\ hostRes = "ok"
          /\ listRes \in {"unavailable", "connect_err"}
          /\ lpc \in {"commit", "sleep", "check"}
          => /\ HasRow(HostEntity, tick)
             /\ \A c \in Containers : ~HasRow(c, tick))
    /\ (listRes \in {"unavailable", "connect_err"} /\ running /\ tick < MaxTicks)
         ~> (lpc = "host" \/ ~running)

C5_Witness ==
    lpc = "sleep" /\ hostRes = "ok" /\ listRes = "connect_err" /\ running /\ tick < MaxTicks

\* C6: while the collector runs, a tick that ended in a failure is eventually
\* followed by the start of the next tick (up to the tick bound).
C6_FailedTickFollowedByNext ==
    (aborted /\ running /\ tick < MaxTicks)
        ~> (lpc = "host" \/ ~running)

C6_Witness == lpc = "sleep" /\ aborted /\ running /\ tick < MaxTicks

\* C7: the runtime is asked to enumerate containers at most once between two
\* inter-tick sleeps.
C7_OneEnumerationPerSleep == enumSinceSleep <= 1

C7_Witness == enumSinceSleep = 1 /\ tick = 2 /\ listRes \in {"unavailable", "connect_err"}

\* C8: at most one tick is collecting at any time.
C8_TicksNeverOverlap == collecting <= 1

C8_Witness == collecting = 1 /\ tick = 2

\* C9: in every tick no container sample is attempted before the host sample.
C9_HostBeforeContainers ==
    (\E c \in Containers : contRes[c] # "none") => hostRes # "none"

C9_Witness == \E c \in Containers : contRes[c] = "ok"

\* C10: the rows stored for one entity by successive ticks have strictly
\* increasing timestamps.
C10_TimestampsIncrease ==
    \A r1, r2 \in store : (r1.e = r2.e /\ r1.t < r2.t) => r1.ts < r2.ts

C10_Witness == \E c \in Registered : HasRow(c, 1) /\ HasRow(c, 2)

\* C11: once stop() has been called the collector eventually reaches Stopped;
\* a pending inter-tick sleep is cancelled rather than completed; Stopped is
\* terminal and no row is appended to the store after stop() returned.
C11_StopTerminates ==
    /\ (phase = "stopping" ~> phase = "stopped")
    /\ [][(phase = "stopping" /\ lpc = "sleep") => lpc' # "check"]_vars
    /\ [][phase = "stopped" => (phase' = "stopped" /\ store' = store)]_vars

C11_Witness == phase = "stopped" /\ cancelPc = "sleep"

\* C12 (as stated): for a snapshot pair with cur_system > prev_system,
\* cur_total >= prev_total and online_cpus >= 1, 0 <= cpu_percent <= online_cpus * 100.
C12_CpuPercentBounded_Original ==
    (fout # <<>> /\ fin.curSys > fin.prevSys /\ fin.curTotal >= fin.prevTotal /\ fin.cpus >= 1)
    => 0 <= fout[1] /\ fout[1] <= fin.cpus * 100 * 100

\* C12 (amended): the bound holds when moreover the container's CPU delta does
\* not exceed the system CPU delta.
C12_CpuPercentBounded ==
    (fout # <<>> /\ fin.curSys > fin.prevSys /\ fin.curTotal >= fin.prevTotal /\ fin.cpus >= 1
     /\ fin.curTotal - fin.prevTotal <= fin.curSys - fin.prevSys)
    => 0 <= fout[1] /\ fout[1] <= fin.cpus * 100 * 100

C12_Witness ==
    fout # <<>> /\ fout[1] > 0 /\ fin.curTotal - fin.prevTotal <= fin.curSys - fin.prevSys

\* C13: cpu_percent is exactly 0 when cur_system = prev_system, cpu_delta <= 0 or
\* system_delta <= 0, and is never negative.
C13_CpuPercentZeroCases ==
    fout # <<>> =>
      /\ fout[1] >= 0
      /\ (fin.curSys = fin.prevSys \/ fin.curTotal - fin.prevTotal <= 0
          \/ fin.curSys - fin.prevSys <= 0) => fout[1] = 0

C13_Witness == fout # <<>> /\ fin.curSys > fin.prevSys /\ fin.curTotal < fin.prevTotal

\* C14: memory percent is used / limit * 100 when limit > 0 and 0 when limit = 0;
\* a zero limit still yields formatted stats and a stored sample.
C14_MemoryPercentZeroLimit ==
    fout # <<>> =>
      LET limit == IF fin.hasLimit THEN fin.limit ELSE 1
      IN /\ limit > 0 => fout[1].memory_percent = RoundHalfEven(fin.usage * 100 * 100, limit)
         /\ limit = 0 => (~fout[1].error /\ fout[1].memory_percent = 0 /\ fout[1].stored)

\* C15: a non-aggregated history query returns exactly the stored samples whose
\* timestamp lies strictly inside the window (now - delta, now], ascending.
C15_HistoryWindow ==
    fout # <<>> =>
      fout[1] = SortByTs({ r \in fin.rows :
                             fin.now - PeriodDelta(fin.period) < r.ts /\ r.ts <= fin.now })

\* rows the code groups into the emitted bucket b
BucketRowSet(rows, b) ==
    { rows[i] : i \in { j \in 1..Len(rows) :
        IntervalKey(rows[j].ts, IntervalSeconds(fin.period), fin.off) = b.timestamp } }

\* C16: with aggregate=true each sample goes to bucket floor(ts / w) * w, samples
\* with equal bucket_start share one bucket, buckets are emitted in strictly
\* ascending bucket_start order and only non-empty buckets are emitted.
BucketsAsSpecified(out, rows, w) ==
    /\ { out[i].timestamp : i \in DOMAIN out } = { (r.ts \div w) * w : r \in Range(rows) }
    /\ \A i \in DOMAIN out : i + 1 \in DOMAIN out => out[i].timestamp < out[i + 1].timestamp
    /\ \A i \in DOMAIN out :
         out[i].n = Cardinality({ j \in 1..Len(rows) : (rows[j].ts \div w) * w = out[i].timestamp })
         /\ out[i].n > 0

C16_Bucketing ==
    fout # <<>> =>
      /\ BucketsAsSpecified(fout[1].sys, fin.rows, IntervalSeconds(fin.period))
      /\ BucketsAsSpecified(fout[1].cont, fin.rows, IntervalSeconds(fin.period))

\* C17: every gauge metric of a bucket (cpu_usage, memory_usage, disk_usage,
\* load_avg; container: cpu_usage, memory_usage) is reported as {avg, max, min}
\* over the bucket's samples.
GaugeReported(b, rows, g, f) ==
    LET vs == { r[f] : r \in BucketRowSet(rows, b) }
        n == Cardinality(BucketRowSet(rows, b))
    IN /\ {g \o "_avg", g \o "_max", g \o "_min"} \subseteq DOMAIN b
       /\ b[g \o "_avg"].n = (LET S == BucketRowSet(rows, b)
                                  RECURSIVE Sum(_)
                                  Sum(T) == IF T = {} THEN 0
                                            ELSE LET x == CHOOSE y \in T : TRUE IN x[f] + Sum(T \ {x})
                              IN Sum(S))
       /\ b[g \o "_avg"].d = n
       /\ b[g \o "_max"] = CHOOSE m \in vs : \A v \in vs : v <= m
       /\ b[g \o "_min"] = CHOOSE m \in vs : \A v \in vs : m <= v

C17_GaugeAggregation ==
    fout # <<>> =>
      /\ \A i \in DOMAIN fout[1].sys :
           /\ GaugeReported(fout[1].sys[i], fin.rows, "cpu_usage", "cpu")
           /\ GaugeReported(fout[1].sys[i], fin.rows, "memory_usage", "mem")
           /\ GaugeReported(fout[1].sys[i], fin.rows, "disk_usage", "disk")
           /\ GaugeReported(fout[1].sys[i], fin.rows, "load_avg_1m", "load")
      /\ \A i \in DOMAIN fout[1].cont :
           /\ GaugeReported(fout[1].cont[i], fin.rows, "cpu_usage", "cpu")
           /\ GaugeReported(fout[1].cont[i], fin.rows, "memory_usage", "mem")

\* C18: every cumulative counter of a bucket (network_rx, network_tx; container
\* also block_read, block_write) is the raw value of the bucket's latest sample.
CounterReported(b, rows, f, rf) ==
    LET S == BucketRowSet(rows, b)
        latest == CHOOSE r \in S : \A q \in S : q.ts <= r.ts
    IN f \in DOMAIN b /\ b[f] = latest[rf]

\* stored row field of each reported counter
CounterField(f) ==
    CASE f = "network_rx" -> "rx" [] f = "network_tx" -> "tx"
      [] f = "block_read" -> "block_read" [] f = "block_write" -> "block_write"

C18_CounterAggregation ==
    fout # <<>> =>
      /\ \A i \in DOMAIN fout[1].sys :
           \A f \in {"network_rx", "network_tx"} :
              CounterReported(fout[1].sys[i], fin.rows, f, CounterField(f))
      /\ \A i \in DOMAIN fout[1].cont :
           \A f \in {"network_rx", "network_tx", "block_read", "block_write"} :
              CounterReported(fout[1].cont[i], fin.rows, f, CounterField(f))

\* C20 (as stated): aggregating 7 days of 60 s samples with period 7d yields at
\* most 168 buckets.
C20_WeekBuckets_Original == fout # <<>> => fout[1] <= 168

\* C20 (amended): at most 169 buckets, and at most 168 when the first sample lies
\* within the first Interval seconds of its hour bucket.
C20_WeekBuckets ==
    fout # <<>> =>
      /\ fout[1] <= 169
      /\ ((fin.start - fin.off) % 3600 < Interval) => fout[1] <= 168

C20_Witness == fout # <<>> /\ fout[1] = 169

\* C21: with change_percent = (last - first) / first * 100 when first > 0 and 0
\* otherwise, the trend is increasing iff change_percent > 5, decreasing iff
\* change_percent < -5, stable otherwise; first = 0 gives 0 and stable.
C21_TrendClassification ==
    fout # <<>> =>
      LET c == fout[1].change
          \* change_percent compared with k, as c.n / c.d vs k (c.d > 0)
          Gt(k) == c.n > k * c.d
          Lt(k) == c.n < k * c.d
      IN /\ fin.first > 0 => c.n * fin.first = (fin.last - fin.first) * 100 * c.d
         /\ fin.first = 0 => (c.n = 0 /\ fout[1].trend = "stable")
         /\ (fout[1].trend = "increasing") <=> Gt(5)
         /\ (fout[1].trend = "decreasing") <=> Lt(-5)
         /\ (fout[1].trend = "stable") <=> (~Gt(5) /\ ~Lt(-5))

C21_Witness == fout # <<>> /\ fin.first = 20 /\ fin.last = 21

\* C22: for metric cpu or memory and at least two buckets, the trend compares the
\* first bucket's avg of that metric with the last bucket's avg (f = fn/fd,
\* l = ln/ld, so (l - f)/f = (ln*fd - fn*ld)/(fn*ld)).
AvgKey(metric) == IF metric = "cpu" THEN "cpu_usage_avg" ELSE "memory_usage_avg"

C22_TrendUsesBucketAvgs ==
    (fout # <<>> /\ fin.metric \in {"cpu", "memory"} /\ Len(fout[1].stats) >= 2) =>
      LET st == fout[1].stats
          f == st[1][AvgKey(fin.metric)]
          l == st[Len(st)][AvgKey(fin.metric)]
          expect == TrendOf(f.n * l.d, l.n * f.d)
      IN /\ fout[1].res.trend = expect.trend
         /\ fout[1].res.change.n * expect.change.d = expect.change.n * fout[1].res.change.d

\* C23: the top consumers are the registered containers of the window ordered by
\* the metric's averaged value descending, ties by container id ascending, cut to
\* limit; hence independent of the storage order of the samples.
C23_TopConsumersOrder ==
    fout # <<>> =>
      LET rows == fin.rows
          ids == { c \in TopRegistered : \E i \in 1..Len(rows) : rows[i].container_id = c }
          K(c) == ConsumerKey(rows, c, fin.metric)
          before(a, b) == K(a).n * K(b).d > K(b).n * K(a).d
                          \/ (K(a).n * K(b).d = K(b).n * K(a).d /\ a < b)
          rank(c) == Cardinality({ a \in ids : before(a, c) }) + 1
          sorted == [r \in 1..Cardinality(ids) |-> CHOOSE c \in ids : rank(c) = r]
      IN fout[1] = Prefix(sorted, fin.limit)

\* C24: every caller uses the lookback 1h / 6h / 24h / 7d / 30d of the period,
\* so a sample is considered iff its age is within that lookback.
LookbackOf(p) ==
    CASE p = "1h" -> 3600 [] p = "6h" -> 6 * 3600 [] p = "24h" -> 24 * 3600
      [] p = "7d" -> 7 * 86400 [] p = "30d" -> 30 * 86400

C24_UniformLookback ==
    fout # <<>> => (fout[1] <=> fin.age <= LookbackOf(fin.period))

\* C25: an unknown period (history, top, compare, trend) or a non-positive
\* retention_days (prune) is rejected with a client error and no query runs.
InvalidRequest(op, period, retention) ==
    IF op = "prune" THEN retention <= 0 ELSE period \notin ApiPeriods

C25_InvalidInputsRejected ==
    (fout # <<>> /\ InvalidRequest(fin.op, fin.period, fin.retention))
        => (fout[1].rejected /\ ~fout[1].queried)

\* C26: a prune removes every sample older than the cutoff and keeps every sample
\* at or after it; a second prune right after the first removes and reports nothing.
C26_PruneRemovesOldOnly ==
    /\ ppc[1] = "done" =>
         /\ \A r \in dbrows : ~OlderThan(r, PruneCutoff)
         /\ \A r \in db0 : r.ts >= PruneCutoff => r \in dbrows
    /\ ppc[2] = "done" => (pcount[2] = NoCounts /\ premoved[2] = NoCounts)

C26_Witness ==
    /\ ppc[2] = "done"
    /\ \E r \in db0 : r.ts < PruneCutoff
    /\ \E r \in db0 : r.ts = PruneCutoff

\* C27: the system / container counts a prune returns equal the rows that prune
\* removed, under any interleaving with other prunes and collector writes.
C27_PruneCountsExact ==
    \A p \in PruneProcs : ppc[p] = "done" => pcount[p] = premoved[p]

\* C28: the formatted stats of a runtime snapshot contain a cpu_percent field.
C28_CpuPercentField ==
    fout # <<>> => "cpu_percent" \in DOMAIN fout[1]

\* C29: when a listed container has no containers row or its stats lookup returns
\* an error result, the step stores no row for it in this tick, does not abort the
\* tick, and the loop goes on to the next container (or the commit).
C29_SkipUnmappedOrMissing ==
    [][\A c \in Containers :
         (contRes[c] = "none" /\ contRes'[c] \in {"stats_err", "unregistered"})
           => /\ ~(\E r \in store' \cup staged' : r.e = c /\ r.t = tick)
              /\ ~aborted'
              /\ idx' = idx + 1
              /\ lpc' \in {"cont", "commit"}]_vars

C29_Witness ==
    /\ \E c \in Containers : contRes[c] \in {"stats_err", "unregistered"}
    /\ lpc = "sleep" /\ ~aborted
    /\ \E c \in Containers : HasRow(c, tick) /\ c # HostEntity

\* C30: whatever start() / stop() calls are made, concurrent start() calls
\* included, at most one loop task is live (created, not cancelled, not ended),
\* and only a live task runs a tick.
LiveTasks == { t \in TaskSlots : tst[t] = "loop" /\ ~tcan[t] }

C30_SingleLoopTask == Cardinality(LiveTasks) <= 1

C30_Witness ==
    /\ \E t \in TaskSlots : tst[t] = "done"
    /\ \E t \in TaskSlots : t \in LiveTasks /\ tpos[t] = "sleep"
    /\ nstarts = MaxStarts

====
